---- MODULE Spec2Model ----
(***************************************************************************)
(* Goehring polarity model (src/src/models/goehring.py): run_model, the    *)
(* right-hand-side assembler odefunc with its spatial discretisation, the  *)
(* failure reporter plot_failure and the calls solve_ivp makes on them.    *)
(*                                                                         *)
(* Real numbers are exact rationals <<n, d>> in lowest terms with d > 0;   *)
(* floating-point rounding is not modelled.  Parameter values are small    *)
(* rationals so that products stay inside TLC's integers (L = 140 for      *)
(* 134.6, tL = 1 for 5000, Nx = 3 for 100, one-digit rates); the relations *)
(* between the defaults (x0 = 0, xL = L/2, t0 = 0 < tL, points_per_second  *)
(* = 2, beta = 2, alpha = 1, k_PA = 2, rho_P = 1) are those of the source. *)
(***************************************************************************)
EXTENDS Integers, Sequences, FiniteSets, TLC

VARIABLES pc, runs, DEFAULT_PARAMETERS, args, kvals, U, t, dudt, assigned,
          sol, err, reporter, reports

vars == <<pc, runs, DEFAULT_PARAMETERS, args, kvals, U, t, dudt, assigned,
          sol, err, reporter, reports>>

----------------------------------------------------------------------------
(* Bounds of the model *)

MaxNx == 4        \* largest node count an override may ask for
MaxRuns == 2      \* calls of run_model

----------------------------------------------------------------------------
(* Exact rational arithmetic standing for the float arithmetic of numpy *)

\* The operations are functions, so that their arguments are evaluated
\* where they are applied.
Q == Int \X Int

Abs(n) == IF n < 0 THEN -n ELSE n

GCD[a \in Nat, b \in Nat] == IF b = 0 THEN a ELSE GCD[b, a % b]

Rat[n \in Int, d \in Int] ==
    LET g == GCD[Abs(n), Abs(d)]
        s == IF d < 0 THEN -1 ELSE 1
    IN  <<(s * n) \div g, (s * d) \div g>>

R(n) == <<n, 1>>
Zero == <<0, 1>>
RAdd[a \in Q, b \in Q] ==
    LET g == GCD[a[2], b[2]]
    IN  Rat[a[1] * (b[2] \div g) + b[1] * (a[2] \div g), (a[2] \div g) * b[2]]
RNeg[a \in Q] == <<-a[1], a[2]>>
RSub[a \in Q, b \in Q] == RAdd[a, RNeg[b]]
RMul[a \in Q, b \in Q] ==
    LET g1 == GCD[Abs(a[1]), b[2]]
        g2 == GCD[Abs(b[1]), a[2]]
    IN  Rat[(a[1] \div g1) * (b[1] \div g2), (a[2] \div g2) * (b[2] \div g1)]
RDiv[a \in Q, b \in Q] == RMul[a, Rat[b[2], b[1]]]
RLt(a, b) == a[1] * b[2] < b[1] * a[2]
RAbs[a \in Q] == <<Abs(a[1]), a[2]>>
RMaximum[a \in Q, b \in Q] == IF RLt(a, b) THEN b ELSE a
RPow[a \in Q, n \in Nat] == IF n = 0 THEN R(1) ELSE RMul[a, RPow[a, n - 1]]
\* int(x): truncation towards zero
RInt[a \in Q] == IF a[1] >= 0 THEN a[1] \div a[2] ELSE -((-a[1]) \div a[2])

RECURSIVE RSum(_)
RSum(s) == IF s = <<>> THEN Zero ELSE RAdd[Head(s), RSum(Tail(s))]

\* Python's min(U) and max(U) over a non-empty sequence
RECURSIVE SeqMin(_)
SeqMin(s) ==
    IF Len(s) = 1 THEN s[1]
    ELSE LET m == SeqMin(Tail(s)) IN IF RLt(m, s[1]) THEN m ELSE s[1]
RECURSIVE SeqMax(_)
SeqMax(s) ==
    IF Len(s) = 1 THEN s[1]
    ELSE LET m == SeqMax(Tail(s)) IN IF RLt(s[1], m) THEN m ELSE s[1]

\* Python indexing: a sequence s read at 0-based index i; a negative index
\* counts from the end
At(s, i) == IF i < 0 THEN s[Len(s) + i + 1] ELSE s[i + 1]

----------------------------------------------------------------------------
(* numpy helpers *)

\* np.linspace(start, stop, num, endpoint=False): the variant that leaves
\* the end of the interval out
Linspace_noendpoint(start, stop, num) ==
    LET delta == RSub[stop, start]
    IN  [i \in 1..num |-> RAdd[start, RMul[R(i - 1), RDiv[delta, R(num)]]]]

\* np.linspace(start, stop, num), endpoint included
Linspace(start, stop, num) ==
    LET div == num - 1
        delta == RSub[stop, start]
    IN  [i \in 1..num |->
            IF num > 1 /\ i = num THEN stop
            ELSE IF div > 0
                 THEN RAdd[start, RMul[R(i - 1), RDiv[delta, R(div)]]]
                 ELSE RAdd[start, RMul[R(i - 1), delta]]]

\* np.ravel of a 2-d array given as a sequence of rows of equal length:
\* RavelF is order='F' (column by column), RavelC the default order (row by
\* row); RavelC_orderF is the default call given order='F'
RavelF(rows) ==
    LET nr == Len(rows)
        nc == IF nr = 0 THEN 0 ELSE Len(rows[1])
    IN  [k \in 1..(nr * nc) |-> rows[((k - 1) % nr) + 1][((k - 1) \div nr) + 1]]

RavelC_orderF(rows) == RavelF(rows)

RavelC(rows) ==
    LET nr == Len(rows)
        nc == IF nr = 0 THEN 0 ELSE Len(rows[1])
    IN  [k \in 1..(nr * nc) |-> rows[((k - 1) \div nc) + 1][((k - 1) % nc) + 1]]

\* np.zeros(n)
Zeros(n) == [i \in 1..n |-> Zero]

\* scipy.integrate.simpson(y, x): composite Simpson over pairs of intervals
\* of the sample points; an even number of points gets the trapezoid (two
\* points) or the three-point end correction for the last interval.
RECURSIVE BasicSimpson(_, _, _)
BasicSimpson(y, x, n) ==  \* over the first n points, n odd
    IF n < 3 THEN Zero
    ELSE LET h0 == RSub[x[n - 1], x[n - 2]]
             h1 == RSub[x[n], x[n - 1]]
             hsum == RAdd[h0, h1]
             hprod == RMul[h0, h1]
             h0divh1 == RDiv[h0, h1]
             term == RMul[RDiv[hsum, R(6)],
                        RAdd[RAdd[RMul[y[n - 2], RSub[R(2), RDiv[R(1), h0divh1]]],
                                  RMul[y[n - 1], RDiv[RMul[hsum, hsum], hprod]]],
                             RMul[y[n], RSub[R(2), h0divh1]]]]
         IN  RAdd[BasicSimpson(y, x, n - 2), term]

simpson(y, x) ==
    LET N == Len(y)
    IN  IF N % 2 = 1 THEN BasicSimpson(y, x, N)
        ELSE IF N = 2 THEN RMul[Rat[1, 2], RMul[RSub[x[2], x[1]], RAdd[y[1], y[2]]]]
        ELSE LET h0 == RSub[x[N - 1], x[N - 2]]
                 h1 == RSub[x[N], x[N - 1]]
                 alpha == RDiv[RAdd[RMul[R(2), RMul[h1, h1]], RMul[R(3), RMul[h0, h1]]],
                               RMul[R(6), RAdd[h0, h1]]]
                 beta == RDiv[RAdd[RMul[h1, h1], RMul[R(3), RMul[h0, h1]]],
                              RMul[R(6), h0]]
                 eta == RDiv[RMul[h1, RMul[h1, h1]],
                             RMul[R(6), RMul[h0, RAdd[h0, h1]]]]
             IN  RAdd[BasicSimpson(y, x, N - 1),
                      RSub[RAdd[RMul[alpha, y[N]], RMul[beta, y[N - 1]]],
                           RMul[eta, y[N - 2]]]]

----------------------------------------------------------------------------
(* Module-level definitions of goehring.py *)

default_v_func(kv, x, tt) ==
    RDiv[RNeg[RMul[x, RMul[RSub[x, R(190)], RSub[x, R(35)]]]],
         RMul[R(700000),
              RPow[RMaximum[R(1), RAbs[RDiv[RSub[tt, R(120)], R(80)]]], 2]]]

\* Ybar without its factor 2
Ybar_unscaled(kv, Y) == RDiv[simpson(Y, kv["X"]), kv["L"]]

Ybar(kv, Y) == RDiv[RMul[R(2), simpson(Y, kv["X"])], kv["L"]]
default_A_cyto(kv, A) == RSub[kv["rho_A"], RMul[kv["psi"], Ybar(kv, A)]]
default_P_cyto(kv, P) == RSub[kv["rho_P"], RMul[kv["psi"], Ybar(kv, P)]]

\* The mapping DEFAULT_PARAMETERS as the module creates it
DefaultParameters ==
    [label |-> "goehring", points_per_second |-> R(2),
     Nx |-> 3, L |-> R(140), x0 |-> R(0), xL |-> R(70), t0 |-> R(0), tL |-> R(1),
     psi |-> Rat[1, 5], D_A |-> R(2), D_P |-> R(1),
     k_onA |-> Rat[1, 2], k_onP |-> R(1), k_offA |-> Rat[1, 2], k_offP |-> R(1),
     k_AP |-> Rat[1, 5], k_PA |-> R(2), rho_A |-> Rat[3, 2], rho_P |-> R(1),
     alpha |-> 1, beta |-> 2,
     A_cyto |-> "default_A_cyto", P_cyto |-> "default_P_cyto",
     v_func |-> "default_v_func"]

\* Calls through the pluggable entries of kvals; "zero_v_func" is a
\* caller-supplied velocity field that is zero everywhere.
Call_v_func(kv, x, tt) ==
    IF kv["v_func"] = "default_v_func" THEN default_v_func(kv, x, tt) ELSE Zero
Call_A_cyto(kv, A) == default_A_cyto(kv, A)
Call_P_cyto(kv, P) == default_P_cyto(kv, P)

\* The subscripts of Y that disc_diffusion_term reads at node x_i, in the
\* order they stand in the stencil Y[s1] - 2*Y[s2] + Y[s3].  Two variants
\* first: one without the branch for the left boundary, one whose right
\* boundary repeats the boundary node instead of reflecting.
disc_diffusion_subscripts_wrap(kv, x_i) ==
    IF x_i = kv["Nx"] - 1
    THEN <<kv["Nx"] - 2, kv["Nx"] - 1, kv["Nx"] - 2>>
    ELSE <<x_i + 1, x_i, x_i - 1>>

disc_diffusion_subscripts_onesided(kv, x_i) ==
    IF x_i = 0 THEN <<1, 0, 1>>
    ELSE IF x_i = kv["Nx"] - 1
    THEN <<kv["Nx"] - 1, kv["Nx"] - 1, kv["Nx"] - 2>>
    ELSE <<x_i + 1, x_i, x_i - 1>>

disc_diffusion_subscripts(kv, x_i) ==
    IF x_i = 0 THEN <<1, 0, 1>>
    ELSE IF x_i = kv["Nx"] - 1
    THEN <<kv["Nx"] - 2, kv["Nx"] - 1, kv["Nx"] - 2>>
    ELSE <<x_i + 1, x_i, x_i - 1>>

disc_diffusion_term(kv, Y, x_i) ==
    LET s == disc_diffusion_subscripts(kv, x_i)
    IN  RDiv[RAdd[RSub[At(Y, s[1]), RMul[R(2), At(Y, s[2])]], At(Y, s[3])],
             RPow[kv["deltax"], 2]]

\* func, a callable from node index to float, is a function on the nodes
disc_spatial_derivative(kv, func, x_i) ==
    RDiv[RSub[func[x_i + 1], func[x_i]], kv["deltax"]]

R_A(kv, A, P, A_cyto_r, tt, x_i) ==
    RSub[RSub[RMul[kv["k_onA"], A_cyto_r], RMul[kv["k_offA"], At(A, x_i)]],
         RMul[RMul[kv["k_AP"], RPow[At(P, x_i), kv["alpha"]]], At(A, x_i)]]
R_P(kv, A, P, P_cyto_r, tt, x_i) ==
    RSub[RSub[RMul[kv["k_onP"], P_cyto_r], RMul[kv["k_offP"], At(P, x_i)]],
         RMul[RMul[kv["k_PA"], RPow[At(A, x_i), kv["beta"]]], At(P, x_i)]]

\* Item assignments arr[i] = v, applied in order to an array: the first n
\* of writes
RECURSIVE ApplyWrites(_, _, _)
ApplyWrites(arr, writes, n) ==
    IF n = 0 THEN arr
    ELSE [ApplyWrites(arr, writes, n - 1) EXCEPT ![writes[n][1] + 1] = writes[n][2]]

\* The divergence test of odefunc; first the variant whose upper comparison
\* is >= instead of >
Diverged_inclusive(UU) == RLt(SeqMin(UU), R(-100)) \/ ~RLt(SeqMax(UU), R(100))

Diverged(UU) == RLt(SeqMin(UU), R(-100)) \/ RLt(R(100), SeqMax(UU))

\* The nodes odefunc assigns, in order: the right boundary, then the loop
odefunc_nodes(kv) == <<kv["Nx"] - 1>> \o [k \in 1..(kv["Nx"] - 1) |-> k - 1]

\* dudt_A[x_i] and dudt_P[x_i] of odefunc; YA and YP are its A and P
odefunc_dA(tt, YA, YP, cyto_r, kv, x_i) ==
    IF x_i = kv["Nx"] - 1
    THEN RAdd[RSub[RMul[kv["D_A"], disc_diffusion_term(kv, YA, kv["Nx"] - 1)],
                   RDiv[RSub[RMul[RNeg[Call_v_func(kv, At(kv["X"], kv["Nx"] - 2), tt)],
                                  At(YA, kv["Nx"] - 2)],
                             RMul[Call_v_func(kv, At(kv["X"], kv["Nx"] - 1), tt),
                                  At(YA, kv["Nx"] - 1)]],
                        kv["deltax"]]],
              R_A(kv, YA, YP, cyto_r, tt, kv["Nx"] - 1)]
    ELSE RAdd[RSub[RMul[kv["D_A"], disc_diffusion_term(kv, YA, x_i)],
                   disc_spatial_derivative(kv,
                       [x_ii \in 0..(kv["Nx"] - 1) |->
                           RMul[Call_v_func(kv, At(kv["X"], x_ii), tt), At(YA, x_ii)]],
                       x_i)],
              R_A(kv, YA, YP, cyto_r, tt, x_i)]
odefunc_dP(tt, YA, YP, cyto_r, kv, x_i) ==
    IF x_i = kv["Nx"] - 1
    THEN RAdd[RSub[RMul[kv["D_P"], disc_diffusion_term(kv, YP, kv["Nx"] - 1)],
                   RDiv[RSub[RMul[RNeg[Call_v_func(kv, At(kv["X"], kv["Nx"] - 2), tt)],
                                  At(YP, kv["Nx"] - 2)],
                             RMul[Call_v_func(kv, At(kv["X"], kv["Nx"] - 1), tt),
                                  At(YP, kv["Nx"] - 1)]],
                        kv["deltax"]]],
              R_P(kv, YA, YP, cyto_r, tt, kv["Nx"] - 1)]
    ELSE RAdd[RSub[RMul[kv["D_P"], disc_diffusion_term(kv, YP, x_i)],
                   disc_spatial_derivative(kv,
                       [x_ii \in 0..(kv["Nx"] - 1) |->
                           RMul[Call_v_func(kv, At(kv["X"], x_ii), tt), At(YP, x_ii)]],
                       x_i)],
              R_P(kv, YA, YP, cyto_r, tt, x_i)]

\* Lines 82-111 of odefunc: the derivative of a state vector that passed the
\* two checks.  dudt: the vector returned; nodes: the nodes whose dudt_A and
\* dudt_P entries were assigned, in order.  U_A and U_P are the slices A and P.
odefunc_derivative(tt, UU, kv) ==
    LET U_A == SubSeq(UU, 1, kv["Nx"])
        U_P == SubSeq(UU, kv["Nx"] + 1, Len(UU))
        A_cyto_r == Call_A_cyto(kv, U_A)
        P_cyto_r == Call_P_cyto(kv, U_P)
        nodes == odefunc_nodes(kv)
        dudt_A == ApplyWrites(Zeros(kv["Nx"]),
                     [k \in 1..Len(nodes) |->
                         <<nodes[k], odefunc_dA(tt, U_A, U_P, A_cyto_r, kv, nodes[k])>>],
                     Len(nodes))
        dudt_P == ApplyWrites(Zeros(kv["Nx"]),
                     [k \in 1..Len(nodes) |->
                         <<nodes[k], odefunc_dP(tt, U_A, U_P, P_cyto_r, kv, nodes[k])>>],
                     Len(nodes))
    IN  [raise |-> 0, report |-> FALSE,
         dudt |-> RavelC(<<dudt_A, dudt_P>>), nodes |-> nodes]

\* odefunc(t, U, kvals).  raise: the line that raises, 0 when it returns;
\* report: plot_failure is called before the raise.  First the variant that
\* raises on divergence without calling plot_failure.
odefunc_unreported(tt, UU, kv) ==
    IF Len(UU) # 2 * kv["Nx"]
    THEN [raise |-> 74, report |-> FALSE, dudt |-> <<>>, nodes |-> <<>>]
    ELSE IF Diverged(UU)
    THEN [raise |-> 80, report |-> FALSE, dudt |-> <<>>, nodes |-> <<>>]
    ELSE odefunc_derivative(tt, UU, kv)

odefunc(tt, UU, kv) ==
    IF Len(UU) # 2 * kv["Nx"]
    THEN [raise |-> 74, report |-> FALSE, dudt |-> <<>>, nodes |-> <<>>]
    ELSE IF Diverged(UU)
    THEN [raise |-> 80, report |-> TRUE, dudt |-> <<>>, nodes |-> <<>>]
    ELSE odefunc_derivative(tt, UU, kv)

----------------------------------------------------------------------------
(* run_model *)

\* {**d, **a}
Merge(d, a) ==
    [k \in (DOMAIN d) \cup (DOMAIN a) |-> IF k \in DOMAIN a THEN a[k] ELSE d[k]]

NoArgs == [k \in {} |-> 0]

\* Line 115 of run_model on the mappings defs (DEFAULT_PARAMETERS) and a
\* (args): the two mappings as the line leaves them, and params.  First the
\* variant that merges with DEFAULT_PARAMETERS.update(args).
run_model_params_update(defs, a) ==
    [defaults |-> Merge(defs, a), args |-> a, params |-> Merge(defs, a)]

run_model_params(defs, a) ==
    [defaults |-> defs, args |-> a, params |-> Merge(defs, a)]

\* Lines 115-128 of run_model: the two mappings as the lines leave them, the
\* line that raises (0 when none does) and the resolved kvals
run_model_resolve(defs0, a0) ==
    LET merged == run_model_params(defs0, a0)
        defs == merged.defaults
        a == merged.args
        params == merged.params
        X == Linspace(params["x0"], params["xL"], params["Nx"])
    IN  IF Len(X) < 2
        THEN [defaults |-> defs, args |-> a, raise |-> 119, kvals |-> NoArgs]
        ELSE LET deltax == RAbs[RSub[At(X, 1), At(X, 0)]]
                 kv1 == Merge(params, [X |-> X, deltax |-> deltax])
                 kv2 == IF "t_eval" \in DOMAIN kv1 THEN kv1
                        ELSE Merge(kv1,
                               [t_eval |->
                                  Linspace(kv1["t0"], kv1["tL"],
                                     RInt[RMul[kv1["points_per_second"],
                                               RAbs[RSub[kv1["tL"], kv1["t0"]]]]])])
                 kv3 == IF "initial_condition" \in DOMAIN kv2 THEN kv2
                        ELSE Merge(kv2,
                               [initial_condition |->
                                  RavelF([x_i \in 1..kv2["Nx"] |-> <<Rat[1, 2], Zero>>])])
             IN  [defaults |-> defs, args |-> a, raise |-> 0, kvals |-> kv3]

----------------------------------------------------------------------------
(* Inputs: the override mappings a caller passes and the state vectors the
   integrator tries *)

PureDiffusion ==
    [k_onA |-> Zero, k_onP |-> Zero, k_offA |-> Zero, k_offP |-> Zero,
     k_AP |-> Zero, k_PA |-> Zero, v_func |-> "zero_v_func"]

NodeCounts == {[Nx |-> n] : n \in 1..MaxNx}

Fragments ==
    {NoArgs}
    \cup NodeCounts
    \cup {[xL |-> R(140), Nx |-> n] : n \in 2..MaxNx}
    \cup {[xL |-> R(-70)], [tL |-> R(0)], [tL |-> Rat[1, 2]], [tL |-> Rat[5, 4]],
          [tL |-> R(2)],
          [tL |-> R(1), points_per_second |-> R(1)],
          [t_eval |-> <<R(0), Rat[1, 2]>>],
          [initial_condition |-> <<R(1), R(0), R(3), R(0), R(2), R(0)>>],
          [initial_condition |-> <<R(1), R(0), R(0), R(1)>>],
          [colour |-> "red"]}

ArgChoices ==
    Fragments \cup {Merge(PureDiffusion, f) : f \in {NoArgs} \cup NodeCounts}

Vals == {R(-150), R(-101), R(-100), R(100), R(101), R(150)}

NoError == [type |-> "none", line |-> 0]
NoSol == [t |-> <<>>, status |-> "running", success |-> FALSE]
NoCall == <<>>

----------------------------------------------------------------------------
(* The state machine.  pc: where the caller's thread is; runs: calls of
   run_model so far; args: the mapping passed to the current call; kvals:
   the resolved config; U, t: the arguments of the last call of odefunc;
   dudt, assigned: what it returned and the nodes it assigned; sol: the
   solution object; err: the exception that left run_model; reporter: the
   arguments of the call of plot_failure in progress; reports: the calls of
   plot_failure in this run.  The locals of a call are dropped when it
   returns or raises, a trial state when the integrator has used it. *)

Init ==
    /\ pc = "idle"
    /\ runs = 0
    /\ DEFAULT_PARAMETERS = DefaultParameters
    /\ args = NoArgs
    /\ kvals = NoArgs
    /\ U = <<>>
    /\ t = Zero
    /\ dudt = <<>>
    /\ assigned = <<>>
    /\ sol = NoSol
    /\ err = NoError
    /\ reporter = NoCall
    /\ reports = 0

\* run_model(a) up to the call of solve_ivp
run_model(a) ==
    /\ pc \in {"idle", "done", "failed"}
    /\ runs < MaxRuns
    /\ \E r \in {run_model_resolve(DEFAULT_PARAMETERS, a)} :
           /\ DEFAULT_PARAMETERS' = r.defaults
           /\ args' = r.args
           /\ kvals' = r.kvals
           /\ pc' = IF r.raise = 0 THEN "solve_ivp" ELSE "failed"
           /\ err' = IF r.raise = 0 THEN NoError
                     ELSE [type |-> "IndexError", line |-> r.raise]
    /\ runs' = runs + 1
    /\ U' = <<>>
    /\ t' = Zero
    /\ dudt' = <<>>
    /\ assigned' = <<>>
    /\ sol' = NoSol
    /\ reporter' = NoCall
    /\ reports' = 0

\* One call odefunc(tt, UU, kvals) made by the integrator
CallOdefunc(tt, UU) ==
    \E out \in {odefunc(tt, UU, kvals)} :
        /\ U' = UU
        /\ t' = tt
        /\ dudt' = out.dudt
        /\ assigned' = out.nodes
        /\ reporter' = IF out.report THEN [U |-> UU, t |-> tt, kvals |-> kvals]
                       ELSE NoCall
        /\ pc' = IF out.report THEN "plot_failure"
                 ELSE IF out.raise # 0 THEN "failed" ELSE "evaluated"
        /\ err' = IF out.raise # 0 /\ ~out.report
                  THEN [type |-> "AssertionError", line |-> out.raise]
                  ELSE err
        /\ UNCHANGED <<runs, DEFAULT_PARAMETERS, args, kvals, sol, reports>>

\* The time of a later right-hand-side evaluation: of the times in the span
\* of integration the model takes its start
NextTime == kvals["t0"]

\* solve_ivp evaluates the right-hand side at (t0, y0) when it starts
solve_ivp_init ==
    /\ pc = "solve_ivp"
    /\ CallOdefunc(kvals["t0"], kvals["initial_condition"])

\* A later right-hand-side evaluation, at the initial state with one
\* component replaced (as the integrator does for a column of its Jacobian)
solve_ivp_fun(i, v) ==
    /\ pc = "step"
    /\ i <= Len(kvals["initial_condition"])
    /\ CallOdefunc(NextTime, [kvals["initial_condition"] EXCEPT ![i] = v])

\* plot_failure returns (its window is closed) and odefunc raises; the
\* exception leaves solve_ivp and run_model
plot_failure ==
    /\ pc = "plot_failure"
    /\ pc' = "failed"
    /\ err' = [type |-> "AssertionError", line |-> 80]
    /\ reporter' = NoCall
    /\ reports' = reports + 1
    /\ U' = <<>>
    /\ t' = Zero
    /\ UNCHANGED <<runs, DEFAULT_PARAMETERS, args, kvals, dudt, assigned, sol>>

\* The integrator uses the derivative it was returned: the step it belongs
\* to ends, and m of the requested output times that the step passed are
\* recorded
solve_ivp_step(m) ==
    /\ pc = "evaluated"
    /\ Len(sol.t) + m <= Len(kvals["t_eval"])
    /\ sol' = [sol EXCEPT !.t = SubSeq(kvals["t_eval"], 1, Len(sol.t) + m)]
    /\ pc' = "step"
    /\ U' = <<>>
    /\ t' = Zero
    /\ dudt' = <<>>
    /\ assigned' = <<>>
    /\ UNCHANGED <<runs, DEFAULT_PARAMETERS, args, kvals, err, reporter, reports>>

\* What run_model leaves when it returns (sol, kvals)
Return(status) ==
    /\ sol' = [sol EXCEPT !.status = status, !.success = (status = "finished")]
    /\ pc' = "done"
    /\ UNCHANGED <<runs, DEFAULT_PARAMETERS, args, kvals, U, t, dudt, assigned,
                   err, reporter, reports>>

\* The integrator reaches tL; run_model returns (sol, kvals)
solve_ivp_finished ==
    /\ pc = "step"
    /\ Len(sol.t) = Len(kvals["t_eval"])
    /\ Return("finished")

\* A step fails (the step size falls below the spacing of floats): solve_ivp
\* sets status -1 and returns what it has; run_model returns (sol, kvals)
solve_ivp_failed ==
    /\ pc = "step"
    /\ Return("failed")

Next ==
    \/ \E a \in ArgChoices : run_model(a)
    \/ solve_ivp_init
    \/ \E i \in 1..(2 * MaxNx), v \in Vals : solve_ivp_fun(i, v)
    \/ plot_failure
    \/ \E m \in {0, 1} : solve_ivp_step(m)
    \/ solve_ivp_finished
    \/ solve_ivp_failed

Spec == Init /\ [][Next]_vars

----------------------------------------------------------------------------
(* Properties *)

\* run_model got past line 119: kvals is the resolved config
Built == DOMAIN kvals # {}

\* Some component of UU is below -100 or above 100
OutOfRange(UU) ==
    \E i \in 1..Len(UU) : RLt(UU[i], R(-100)) \/ RLt(R(100), UU[i])

\* The A block and the P block of a state or derivative vector
BlockA(V) == SubSeq(V, 1, kvals["Nx"])
BlockP(V) == SubSeq(V, kvals["Nx"] + 1, 2 * kvals["Nx"])

\* Y extended by reflection at both ends, on the 0-based indices -1..Len(Y),
\* and the three-point stencil on it at node i
Reflected(Y) ==
    [j \in -1..Len(Y) |->
        IF j = -1 THEN Y[2] ELSE IF j = Len(Y) THEN Y[Len(Y) - 1] ELSE Y[j + 1]]
Stencil(Y, i) ==
    RDiv[RAdd[RSub[Reflected(Y)[i + 1], RMul[R(2), Reflected(Y)[i]]],
              Reflected(Y)[i - 1]],
         RMul[kvals["deltax"], kvals["deltax"]]]

\* All reaction rates are zero and the velocity field is zero everywhere
NoReactionNoFlow ==
    /\ Built
    /\ \A k \in {"k_onA", "k_onP", "k_offA", "k_offP", "k_AP", "k_PA"} :
           kvals[k] = Zero
    /\ kvals["v_func"] = "zero_v_func"

\* The sum of a block with its two boundary nodes weighted one half
TrapezoidSum(D) ==
    RSum([i \in 1..Len(D) |->
             IF i = 1 \/ i = Len(D) THEN RMul[Rat[1, 2], D[i]] ELSE D[i]])

\* C1: odefunc raises the divergence error exactly when some component of U
\* is below -100 or above 100: a call that reaches plot_failure has such a
\* component, a call that returned a derivative has none, and the error of
\* line 80 is only ever left by that path.
C1_DivergenceIff ==
    /\ pc = "plot_failure" => OutOfRange(U)
    /\ pc = "evaluated" => ~OutOfRange(U) /\ Len(dudt) = Len(U)
    /\ err.line = 80 => pc = "failed" /\ err.type = "AssertionError"

C1_Witness == pc = "plot_failure" /\ \E i \in 1..Len(U) : U[i] = R(150)

\* C2: when run_model returns, the trajectory is complete: the solver
\* succeeded and every requested output time is in it.
C2_NoPartialTrajectory ==
    pc = "done" => sol.success /\ sol.t = kvals["t_eval"]

\* C3: a config with xL <= x0, tL <= t0 or Nx < 3 is rejected with a
\* configuration error before any grid is built or the integrator is called.
InvalidConfig(p) ==
    \/ ~RLt(p["x0"], p["xL"])
    \/ ~RLt(p["t0"], p["tL"])
    \/ p["Nx"] < 3
C3_ConfigErrorAtEntry ==
    (pc # "idle" /\ InvalidConfig(Merge(DEFAULT_PARAMETERS, args)))
        => err.type = "ConfigurationError" /\ ~Built

\* C4: while plot_failure runs, no error has been raised yet, it holds the
\* offending U, t and kvals, and no derivative was computed; the error of
\* line 80 follows exactly one call of plot_failure, and plot_failure is
\* never called otherwise.
C4_ReportThenRaise ==
    /\ pc = "plot_failure" =>
           /\ reporter = [U |-> U, t |-> t, kvals |-> kvals]
           /\ OutOfRange(reporter.U)
           /\ err = NoError
           /\ reports = 0
           /\ dudt = <<>> /\ assigned = <<>>
    /\ pc # "plot_failure" => reporter = NoCall
    /\ err.line = 80 => reports = 1 /\ dudt = <<>>
    /\ err.line # 80 => reports = 0

C4_Witness == pc = "failed" /\ err.line = 80 /\ reports = 1

\* C5, as stated: with zero rates and zero velocity the components of the
\* derivative sum to zero for every in-range state vector (Nx >= 3).
C5_SumZero ==
    (pc = "evaluated" /\ NoReactionNoFlow /\ kvals["Nx"] >= 3)
        => RSum(dudt) = Zero

\* C5, amended: with zero rates and zero velocity the components of the
\* derivative, the two boundary nodes of each species weighted one half,
\* sum to zero for each species (Nx >= 3).
C5_TrapezoidSumZero ==
    (pc = "evaluated" /\ NoReactionNoFlow /\ kvals["Nx"] >= 3)
        => /\ TrapezoidSum(BlockA(dudt)) = Zero
           /\ TrapezoidSum(BlockP(dudt)) = Zero

C5_Witness ==
    /\ pc = "evaluated" /\ NoReactionNoFlow /\ kvals["Nx"] >= 3
    /\ \E i \in 1..Len(dudt) : dudt[i] # Zero
    /\ RSum(dudt) # Zero

\* C6: at every node disc_diffusion_term equals the three-point stencil on
\* the reflected extension of Y, and it reads no subscript outside
\* 0..Nx-1.
C6_ReflectedStencil ==
    pc = "evaluated" =>
        \A Y \in {BlockA(U), BlockP(U)} : \A x_i \in 0..(kvals["Nx"] - 1) :
            /\ disc_diffusion_term(kvals, Y, x_i) = Stencil(Y, x_i)
            /\ \A k \in 1..3 :
                   disc_diffusion_subscripts(kvals, x_i)[k] \in 0..(kvals["Nx"] - 1)

C6_Witness ==
    /\ pc = "evaluated" /\ kvals["Nx"] >= 3
    /\ disc_diffusion_term(kvals, BlockA(U), 0) # Zero
    /\ disc_diffusion_term(kvals, BlockA(U), kvals["Nx"] - 1) # Zero
    /\ disc_diffusion_term(kvals, BlockA(U), 1) # Zero

\* C7: on a grid that spans the length L, Ybar of a constant array is twice
\* the constant, and the default cytoplasmic functions give rho - psi*2c.
Constants == {R(-3), Zero, Rat[1, 2], R(7)}
C7_YbarOfConstant ==
    (Built /\ RSub[kvals["xL"], kvals["x0"]] = kvals["L"]) =>
        \A c \in Constants :
            /\ Ybar(kvals, [i \in 1..kvals["Nx"] |-> c]) = RMul[R(2), c]
            /\ default_A_cyto(kvals, [i \in 1..kvals["Nx"] |-> c])
                   = RSub[kvals["rho_A"], RMul[kvals["psi"], RMul[R(2), c]]]
            /\ default_P_cyto(kvals, [i \in 1..kvals["Nx"] |-> c])
                   = RSub[kvals["rho_P"], RMul[kvals["psi"], RMul[R(2), c]]]

C7_Witness ==
    /\ pc = "evaluated" /\ RSub[kvals["xL"], kvals["x0"]] = kvals["L"]
    /\ kvals["Nx"] = MaxNx
    /\ U = kvals["initial_condition"]

\* C8, as stated: for tL > t0 the default t_eval has exactly
\* points_per_second*(tL - t0) points, evenly spaced and increasing, the
\* first t0 and the last tL.
DefaultTimes == Built /\ "t_eval" \notin DOMAIN args /\ RLt(kvals["t0"], kvals["tL"])
EvenFromTo(s, a, b) ==
    /\ Len(s) >= 1
    /\ s[1] = a
    /\ s[Len(s)] = b
    /\ \A i \in 1..(Len(s) - 1) :
           /\ RLt(s[i], s[i + 1])
           /\ RSub[s[i + 1], s[i]] = RSub[s[2], s[1]]
C8_DefaultTimes ==
    DefaultTimes =>
        /\ R(Len(kvals["t_eval"]))
               = RMul[kvals["points_per_second"], RSub[kvals["tL"], kvals["t0"]]]
        /\ EvenFromTo(kvals["t_eval"], kvals["t0"], kvals["tL"])

\* C8, amended: for tL > t0 the default t_eval has exactly
\* n = int(points_per_second*(tL - t0)) points; for n >= 2 they are evenly
\* spaced and increasing from t0 to tL, for n = 1 the only point is t0; a
\* caller's t_eval is used unchanged.
C8_DefaultTimesTruncated ==
    /\ DefaultTimes =>
           /\ Len(kvals["t_eval"])
                  = RInt[RMul[kvals["points_per_second"],
                              RSub[kvals["tL"], kvals["t0"]]]]
           /\ Len(kvals["t_eval"]) >= 2 =>
                  EvenFromTo(kvals["t_eval"], kvals["t0"], kvals["tL"])
           /\ Len(kvals["t_eval"]) = 1 => kvals["t_eval"] = <<kvals["t0"]>>
    /\ (Built /\ "t_eval" \in DOMAIN args) => kvals["t_eval"] = args["t_eval"]

C8_Witness == DefaultTimes /\ Len(kvals["t_eval"]) >= 3 /\ pc = "done"

\* C9: the merge is shallow and the caller's entries win, keys the model
\* does not know pass through, and neither DEFAULT_PARAMETERS nor the
\* caller's mapping is changed by a run.
Resolved == {"X", "deltax", "t_eval", "initial_condition"}
C10_BlockLayout ==
    /\ (Built /\ "initial_condition" \notin DOMAIN args) =>
           /\ Len(kvals["initial_condition"]) = 2 * kvals["Nx"]
           /\ \A i \in 1..kvals["Nx"] :
                  /\ kvals["initial_condition"][i] = Rat[1, 2]
                  /\ kvals["initial_condition"][kvals["Nx"] + i] = Zero
    /\ pc = "evaluated" =>
           /\ Len(U) = 2 * kvals["Nx"]
           /\ Len(dudt) = 2 * kvals["Nx"]
           /\ Len(assigned) = kvals["Nx"]
           /\ assigned[1] = kvals["Nx"] - 1
           /\ \A k \in 2..kvals["Nx"] : assigned[k] = k - 2
           /\ \A x_i \in 0..(kvals["Nx"] - 1) :
                  Cardinality({k \in 1..Len(assigned) : assigned[k] = x_i}) = 1
    /\ (pc = "evaluated" /\ NoReactionNoFlow) =>
           \A x_i \in 0..(kvals["Nx"] - 1) :
               /\ dudt[x_i + 1] = RMul[kvals["D_A"], Stencil(BlockA(U), x_i)]
               /\ dudt[kvals["Nx"] + x_i + 1]
                      = RMul[kvals["D_P"], Stencil(BlockP(U), x_i)]

C10_Witness ==
    /\ pc = "evaluated" /\ NoReactionNoFlow /\ kvals["Nx"] >= 3
    /\ \E i \in 1..kvals["Nx"] : dudt[kvals["Nx"] + i] # Zero
    /\ \A i \in 1..kvals["Nx"] : dudt[i] = Zero

====
